---- MODULE Spec2Model ----
(***************************************************************************)
(* Model of the turn-based action loop of src/computer_use_agent.py:       *)
(* ComputerUseAgent.run_agent_loop with the safety gate                    *)
(* (check_safety_decision), the coordinate mapper                          *)
(* (denormalize_coordinates), the action executor (execute_function_call), *)
(* the confirmation prompt (ask_user_confirmation) and the observation     *)
(* builder (create_function_responses).                                    *)
(*                                                                         *)
(* The gate's lower-casing, serialisation and substring tests are         *)
(* computed on the strings, character by character.  The reasoning         *)
(* service, the browser and the user are the                               *)
(* environment: their answers are chosen with \E from small sets.          *)
(*                                                                         *)
(* A coroutine is suspended at each await of a browser operation.  The     *)
(* model takes one step per suspension: started holds the operations the   *)
(* call in progress has awaited so far, the last one being the operation   *)
(* the task is suspended in.  The builder's screenshot runs in a task of   *)
(* its own (lines 405-406): screenshot holds where that task is, and       *)
(* function_response the record built before it was created.               *)
(*                                                                         *)
(* create_function_responses is declared with def (line 372) and contains  *)
(* await (line 406), and line 542 calls it without await: the file as it   *)
(* stands is rejected by the Python compiler.  Two builds run.  With       *)
(* "async def" and the call awaited, the statements of the builder run in  *)
(* their written order (builder_awaited).  With "async def" alone, line    *)
(* 542 binds a coroutine that never runs and line 543 raises TypeError.    *)
(* Which build runs is chosen in Init.                                     *)
(***************************************************************************)
EXTENDS Integers, Sequences, FiniteSets, TLC

VARIABLES
    pc,                        \* control state of run_agent_loop
    max_turns,                 \* self.config.max_turns
    safety_confirmation,       \* parameter of run_agent_loop
    initial_url,               \* parameter of run_agent_loop (None or a URL)
    turn,                      \* loop variable of "for turn in range(max_turns)"
    conversation_history,      \* self.conversation_history
    results,                   \* the dictionary run_agent_loop returns
    function_calls,            \* the intents of the current response
    function_results,          \* the outcomes collected in the current turn
    function_dict,             \* the intent being handled
    reason,                    \* the gate's reason for the intent being handled
    function_response_content, \* the batch built by create_function_responses
    page_url,                  \* self.page.url (browser)
    current_url,               \* self.current_url
    contents,                  \* the history handed to the latest service call
    call_turns,                \* turn index of every service call made so far
    confirm_log,               \* confirmations asked in this turn
    exec_log,                  \* executor invocations of this turn
    call_index,                \* position in "for function_call in function_calls"
    invalid_answers,           \* answers the current prompt rejected so far
    exit_path,                 \* how the for loop over the turns was left
    candidate,                 \* the parts of the response the run ended on
    started,                   \* operations awaited so far by the call in progress
    content_parts,             \* content_parts of create_function_responses
    function_response,         \* function_response of create_function_responses
    screenshot,                \* the task of line 405: where it is
    builder_awaited,           \* the build awaits create_function_responses
    evaluations                \* direct calls of the gate or the mapper: what
                               \* was passed and what was returned

vars == <<pc, max_turns, safety_confirmation, initial_url, turn,
          conversation_history, results, function_calls, function_results,
          function_dict, reason, function_response_content, page_url,
          current_url, contents, call_turns, confirm_log, exec_log,
          call_index, invalid_answers, exit_path, candidate, started,
          content_parts, function_response, screenshot, builder_awaited,
          evaluations>>

(***************************************************************************)
(* Bounds of the model.                                                    *)
(***************************************************************************)
MaxTurns == 2      \* max_turns ranges over 1..MaxTurns
MaxParts == 2      \* parts in one reasoning-service response
MaxInvalid == 1    \* rejected answers to one confirmation prompt that are told apart

(***************************************************************************)
(* Program constants.                                                      *)
(***************************************************************************)
screen_width == 1440
screen_height == 900
NormScale == 1000
DefaultMagnitude == 800
MagnitudeDivisor == 10
WaitSeconds == 5

(***************************************************************************)
(* Strings.                                                                *)
(***************************************************************************)
UpperChars == "ABCDEFGHIJKLMNOPQRSTUVWXYZ"
LowerChars == "abcdefghijklmnopqrstuvwxyz"

\* str.lower() on one character
\* the i-th character of a string
CharAt(s, i) == SubSeq(s, i, i)

LowerChar(c) ==
    IF \E i \in 1..Len(UpperChars) : CharAt(UpperChars, i) = c
    THEN CharAt(LowerChars, CHOOSE i \in 1..Len(UpperChars) : CharAt(UpperChars, i) = c)
    ELSE c

\* str.lower() of the characters of s from the i-th on
RECURSIVE LowerFrom(_, _)
LowerFrom(s, i) == IF i > Len(s) THEN ""
                   ELSE LowerChar(CharAt(s, i)) \o LowerFrom(s, i + 1)

\* str.lower()
Lower(s) == LowerFrom(s, 1)

\* "p in s" for strings
Contains(s, p) ==
    \E i \in 0..(Len(s) - Len(p)) : SubSeq(s, i + 1, i + Len(p)) = p

Digits == "0123456789"

RECURSIVE NatStr(_)
NatStr(n) == IF n < 10 THEN CharAt(Digits, n + 1)
             ELSE NatStr(n \div 10) \o CharAt(Digits, (n % 10) + 1)

\* str() of an int
IntStr(n) == IF n < 0 THEN "-" \o NatStr(-n) ELSE NatStr(n)

\* Argument values: a string, an int or a bool.
StrVal(s) == [t |-> "str", s |-> s, n |-> 0]
IntVal(n) == [t |-> "int", s |-> "", n |-> n]
BoolVal(b) == [t |-> "bool", s |-> "", n |-> IF b THEN 1 ELSE 0]

\* repr() of a string without quotes or backslashes in it
ReprStr(s) == "'" \o s \o "'"

\* repr() of an argument value
ReprVal(v) ==
    CASE v.t = "str" -> ReprStr(v.s)
      [] v.t = "int" -> IntStr(v.n)
      [] v.t = "bool" -> IF v.n = 1 THEN "True"
                                    ELSE "False"

\* A dict is the sequence of its <<key, value>> pairs in insertion order.
RECURSIVE DictItems(_)
DictItems(d) ==
    IF d = <<>> THEN ""
    ELSE ReprStr(d[1][1]) \o ": " \o ReprVal(d[1][2])
         \o (IF Len(d) > 1 THEN ", " ELSE "")
         \o DictItems(Tail(d))

\* str() of a dict
DictStr(d) == "{" \o DictItems(d) \o "}"

HasKey(d, k) == \E i \in 1..Len(d) : d[i][1] = k

\* d[k] for a key the dict has
Get(d, k) == d[CHOOSE i \in 1..Len(d) : d[i][1] = k][2]

\* d.get(k, default)
GetOr(d, k, default) == IF HasKey(d, k) THEN Get(d, k) ELSE default

\* d[k] = v
DictSet(d, k, v) ==
    IF HasKey(d, k)
    THEN [i \in 1..Len(d) |-> IF d[i][1] = k THEN <<k, v>> ELSE d[i]]
    ELSE Append(d, <<k, v>>)

\* truth value of an argument value
Truthy(v) ==
    CASE v.t = "str" -> v.s # ""
      [] v.t = "int" -> v.n # 0
      [] v.t = "bool" -> v.n = 1

(***************************************************************************)
(* String literals of the program.                                         *)
(***************************************************************************)
s_navigate == "navigate"
s_click_at == "click_at"
s_type_text_at == "type_text_at"
s_scroll_document == "scroll_document"
s_scroll_at == "scroll_at"
s_wait_5_seconds == "wait_5_seconds"
s_go_back == "go_back"
s_go_forward == "go_forward"
s_search == "search"
s_key_combination == "key_combination"

k_url == "url"
k_x == "x"
k_y == "y"
k_text == "text"
k_clear_before_typing == "clear_before_typing"
k_press_enter == "press_enter"
k_direction == "direction"
k_magnitude == "magnitude"
k_keys == "keys"
k_safety_acknowledged == "safety_acknowledged"

s_true == "true"
s_down == "down"
s_up == "up"
s_left == "left"
s_right == "right"

GoogleUrl == "https://www.google.com"

msg_default_reason == "Action requires confirmation"
msg_action_open == "Action '"
msg_high_risk == "' involves high-risk operations"
msg_sensitive == "Action involves sensitive data or operations"
msg_navigate_url == "Navigate requires 'url' argument"
msg_unknown == "Unknown function: "

\* self.high_risk_patterns
high_risk_patterns == <<
    "password",
    "credit card",
    "bank",
    "financial",
    "money",
    "delete",
    "remove",
    "install",
    "download",
    "file" >>

\* any(pattern in s for pattern in self.high_risk_patterns)
AnyPattern(s) ==
    \E text \in {s} :
        \E i \in 1..Len(high_risk_patterns) :
            Contains(text, high_risk_patterns[i])

(***************************************************************************)
(* Safety gate.  A function call is a record with the fields the Python    *)
(* dict has: name, args and, when given, safety_decision.                  *)
(***************************************************************************)
\* function_call.get('name', '')
NameOf(function_call) ==
    IF "name" \in DOMAIN function_call THEN function_call.name ELSE ""

\* function_call.get('args', {})
ArgsOf(function_call) ==
    IF "args" \in DOMAIN function_call THEN function_call.args ELSE <<>>

\* lines 205-208: explicit risk metadata
MetadataRequires(function_call) ==
    /\ "safety_decision" \in DOMAIN function_call
    /\ "type" \in DOMAIN function_call.safety_decision
    /\ function_call.safety_decision.type = "require_confirmation"

\* safety_decision.get('explanation', 'Action requires confirmation')
MetadataReason(function_call) ==
    IF "explanation" \in DOMAIN function_call.safety_decision
    THEN function_call.safety_decision.explanation
    ELSE msg_default_reason

\* lines 211-212: the name heuristic
NameIsHighRisk(function_call) == AnyPattern(Lower(NameOf(function_call)))

\* lines 216-218: the argument heuristic
ArgsAreHighRisk(function_call) ==
    AnyPattern(Lower(DictStr(ArgsOf(function_call))))

\* A gate that tries the name before the metadata.
check_safety_decision_name_first(function_call) ==
    IF NameIsHighRisk(function_call)
    THEN <<TRUE, msg_action_open \o NameOf(function_call) \o msg_high_risk>>
    ELSE IF MetadataRequires(function_call)
    THEN <<TRUE, MetadataReason(function_call)>>
    ELSE IF ArgsAreHighRisk(function_call)
    THEN <<TRUE, msg_sensitive>>
    ELSE <<FALSE, "">>

\* check_safety_decision: <<requires_confirmation, reason>>
check_safety_decision(function_call) ==
    IF MetadataRequires(function_call)
    THEN <<TRUE, MetadataReason(function_call)>>
    ELSE IF NameIsHighRisk(function_call)
    THEN <<TRUE, msg_action_open \o NameOf(function_call) \o msg_high_risk>>
    ELSE IF ArgsAreHighRisk(function_call)
    THEN <<TRUE, msg_sensitive>>
    ELSE <<FALSE, "">>

(***************************************************************************)
(* Coordinate mapper.                                                      *)
(***************************************************************************)
\* int(a / b) for b > 0: true division, then truncation toward zero
IntDiv(a, b) == IF a >= 0 THEN a \div b ELSE -((-a) \div b)

\* A mapper that rounds to the nearest pixel.
Scale_rounded(v, size) == IntDiv(v * size + NormScale \div 2, NormScale)

\* lines 190 and 191: int(v * size / 1000) for one axis
Scale(v, size) == IntDiv(v * size, NormScale)

\* denormalize_coordinates
denormalize_coordinates(x, y) ==
    <<Scale(x, screen_width), Scale(y, screen_height)>>

(***************************************************************************)
(* Browser.  One executor call meets a backend behaviour be: be.fail_at is *)
(* the index of the awaited browser operation that raises (0: none),       *)
(* be.focus says how the element click of type_text_at (line 267) ends: it *)
(* returns, it raises a browser failure, or the task is cancelled while    *)
(* the call is suspended in it; be.url is the URL the page shows after a   *)
(* navigation.                                                             *)
(***************************************************************************)
ExampleUrl == "https://example.com"
BankUrl == "https://bank.io"
Urls == {ExampleUrl, BankUrl}

\* str(e) of a browser failure
msg_backend == "Timeout"

\* await self.page.title()
PageTitle(url) == IF url = BankUrl THEN "Bank"
                  ELSE "Example"

Backends ==
    [fail_at : 0..5, focus : {"returns", "raises", "cancelled"}, url : Urls]

Directions == {s_down, s_up, s_left, s_right}

\* An except branch that returns the message without a status.
ErrorResult_no_status(msg) == [error |-> msg]

\* the except branch of execute_function_call (lines 342-344)
ErrorResult(msg) == [status |-> "error", error |-> msg]

\* What one call leaves behind: the returned dict, the page URL, the
\* browser operations that were started, and str() of the exception the
\* handler of line 268 swallowed ("" when it swallowed none, and for a
\* CancelledError, whose str() is empty).
Ran(result, url, ops) ==
    [result |-> result, page_url |-> url, ops |-> ops, raised |-> "",
     swallowed |-> ""]

\* The same for a call in which an exception with message msg was raised
\* inside the try block (lines 342-344).
Raised(msg, url, ops) ==
    [result |-> ErrorResult(msg), page_url |-> url, ops |-> ops, raised |-> msg,
     swallowed |-> ""]

\* lines 239-251; the page shows the URL it was sent to
ExecNavigate(args, be, page) ==
    LET url == GetOr(args, k_url, StrVal("")) IN
    IF ~Truthy(url) THEN Raised(msg_navigate_url, page, <<>>)
    ELSE IF be.fail_at = 1 THEN Raised(msg_backend, page, <<"goto">>)
    ELSE IF be.fail_at = 2
    THEN Raised(msg_backend, url.s, <<"goto", "wait_for_load_state">>)
    ELSE IF be.fail_at = 3
    THEN Raised(msg_backend, url.s, <<"goto", "wait_for_load_state", "title">>)
    ELSE Ran([status |-> "success", url |-> url.s, title |-> PageTitle(url.s)],
             url.s, <<"goto", "wait_for_load_state", "title">>)

\* The pixel position of an intent: args.get('x', 0), args.get('y', 0) mapped.
PixelOf(args) ==
    denormalize_coordinates(GetOr(args, k_x, IntVal(0)).n,
                            GetOr(args, k_y, IntVal(0)).n)

\* lines 253-257; the dict display {"x": x, "x": y} keeps the last "x"
ExecClickAt(args, be, page) ==
    LET p == PixelOf(args) IN
    IF be.fail_at = 1 THEN Raised(msg_backend, page, <<"click">>)
    ELSE Ran([status |-> "success", position |-> [x |-> p[2]]], page, <<"click">>)

\* lines 259-280.  The element click of line 267 raises a browser failure
\* when be.fail_at = 1 or be.focus = "raises", and a CancelledError when
\* be.focus = "cancelled"; the bare except of line 268 takes either, and
\* the pointer click of line 270 follows.  What was swallowed is the
\* browser failure's message, or the empty str() of the CancelledError,
\* which takes precedence: a click that is cancelled does not go on to
\* fail.  Any later operation raises when
\* be.fail_at counts to it: the pointer click, Control+a, the typing or
\* Enter; that exception reaches the handler of line 342.
ExecTypeTextAt(args, be, page) ==
    LET p == PixelOf(args)
        text == GetOr(args, k_text, StrVal("")).s
        clear_before == Truthy(GetOr(args, k_clear_before_typing, BoolVal(TRUE)))
        press_enter == Truthy(GetOr(args, k_press_enter, BoolVal(TRUE)))
        click_raises == be.focus # "returns" \/ be.fail_at = 1
        focus == IF click_raises THEN <<"click", "mouse.click">>
                 ELSE <<"click">>
        keys == (IF clear_before THEN <<"press">> ELSE <<>>) \o <<"type">>
                \o (IF press_enter THEN <<"press">> ELSE <<>>)
        ops == focus \o keys
        swallowed == IF click_raises /\ be.focus # "cancelled"
                     THEN msg_backend ELSE ""
    IN
    IF be.fail_at \in 2..Len(ops)
    THEN [Raised(msg_backend, page, SubSeq(ops, 1, be.fail_at))
            EXCEPT !.swallowed = swallowed]
    ELSE [Ran([status |-> "success", text |-> text,
               position |-> [x |-> p[1], y |-> p[2]]], page, ops)
            EXCEPT !.swallowed = swallowed]

\* lines 282-293
ExecScrollDocument(args, be, page) ==
    LET direction == GetOr(args, k_direction, StrVal(s_down)).s
        ops == IF direction \in Directions THEN <<"press">> ELSE <<>>
    IN
    IF be.fail_at = 1 /\ ops # <<>> THEN Raised(msg_backend, page, ops)
    ELSE Ran([status |-> "success", direction |-> direction], page, ops)

\* lines 295-312
ExecScrollAt(args, be, page) ==
    LET p == PixelOf(args)
        direction == GetOr(args, k_direction, StrVal(s_down)).s
        magnitude == GetOr(args, k_magnitude, IntVal(DefaultMagnitude)).n
        scroll_amount == IntDiv(magnitude, MagnitudeDivisor)
        ops == IF direction \in Directions THEN <<"evaluate">> ELSE <<>>
    IN
    IF be.fail_at = 1 /\ ops # <<>> THEN Raised(msg_backend, page, ops)
    ELSE Ran([status |-> "success", position |-> [x |-> p[1], y |-> p[2]],
              direction |-> direction], page, ops)

\* lines 318-331 (go_back, go_forward, search): op is the first browser
\* operation and landed the URL the page shows after it
ExecHistory(op, landed, be, page) ==
    IF be.fail_at = 1 THEN Raised(msg_backend, page, <<op>>)
    ELSE IF be.fail_at = 2
    THEN Raised(msg_backend, landed, <<op, "wait_for_load_state">>)
    ELSE Ran([status |-> "success", url |-> landed], landed,
             <<op, "wait_for_load_state">>)

\* lines 333-336
ExecKeyCombination(args, be, page) ==
    LET keys == GetOr(args, k_keys, StrVal("")).s IN
    IF be.fail_at = 1 THEN Raised(msg_backend, page, <<"press">>)
    ELSE Ran([status |-> "success", keys |-> keys], page, <<"press">>)

\* lines 338-340
ExecUnknown(function_name, page) ==
    Ran([status |-> "error", message |-> msg_unknown \o function_name], page, <<>>)

\* execute_function_call
execute_function_call(function_call, be, page) ==
    LET function_name == function_call.name
        args == ArgsOf(function_call)
    IN
    CASE function_name = s_navigate -> ExecNavigate(args, be, page)
      [] function_name = s_click_at -> ExecClickAt(args, be, page)
      [] function_name = s_type_text_at -> ExecTypeTextAt(args, be, page)
      [] function_name = s_scroll_document -> ExecScrollDocument(args, be, page)
      [] function_name = s_scroll_at -> ExecScrollAt(args, be, page)
      [] function_name = s_wait_5_seconds ->
            Ran([status |-> "success", waited |-> WaitSeconds], page, <<>>)
      [] function_name = s_go_back -> ExecHistory("go_back", be.url, be, page)
      [] function_name = s_go_forward -> ExecHistory("go_forward", be.url, be, page)
      [] function_name = s_search -> ExecHistory("goto", GoogleUrl, be, page)
      [] function_name = s_key_combination -> ExecKeyCombination(args, be, page)
      [] OTHER -> ExecUnknown(function_name, page)

(***************************************************************************)
(* Reasoning service.  A response content is a sequence of parts; a part   *)
(* carries a text or a function call.                                      *)
(***************************************************************************)
s_delete_account_file == "delete_account_file"
s_explanation == "Confirm click"
s_done == "done"

ClickArgs == << <<k_x, IntVal(500)>>, <<k_y, IntVal(500)>> >>

fc_navigate == [name |-> s_navigate, args |-> << <<k_url, StrVal(BankUrl)>> >>]
fc_click == [name |-> s_click_at, args |-> ClickArgs]
fc_click_flagged ==
    [name |-> s_click_at, args |-> ClickArgs,
     safety_decision |-> [type |-> "require_confirmation",
                          explanation |-> s_explanation]]
fc_delete == [name |-> s_delete_account_file, args |-> <<>>]

\* The function calls the service issues in this model.
ServiceCalls == {fc_navigate, fc_click_flagged, fc_delete}

Texts == {"", s_done}

Parts == {[text |-> t] : t \in Texts}
         \cup {[function_call |-> fc] : fc \in ServiceCalls}

Responses == UNION {[1..n -> Parts] : n \in 0..MaxParts}

\* part.function_call is set
IsCall(part) == "function_call" \in DOMAIN part

\* part.text is set and not empty
HasText(part) == "text" \in DOMAIN part /\ part.text # ""

\* any(part.function_call for part in candidate.content.parts)
HasCalls(parts) == \E i \in 1..Len(parts) : IsCall(parts[i])

\* [part.function_call for part in parts if part.function_call]
RECURSIVE CallsOf(_)
CallsOf(parts) ==
    IF parts = <<>> THEN <<>>
    ELSE (IF IsCall(parts[1]) THEN <<parts[1].function_call>> ELSE <<>>)
         \o CallsOf(Tail(parts))

\* [part.text for part in parts if part.text]
RECURSIVE TextsOf(_)
TextsOf(parts) ==
    IF parts = <<>> THEN <<>>
    ELSE (IF HasText(parts[1]) THEN <<parts[1].text>> ELSE <<>>)
         \o TextsOf(Tail(parts))

\* " ".join(texts)
RECURSIVE Join(_)
Join(texts) ==
    IF texts = <<>> THEN ""
    ELSE IF Len(texts) = 1 THEN texts[1]
    ELSE texts[1] \o " " \o Join(Tail(texts))

\* str(e) of a fault of the service call
msg_service == "503"

\* str(e) of the exceptions a response raises in lines 485-489
msg_index == "list index out of range"
msg_subscript == "'NoneType' object is not subscriptable"
msg_no_parts == "'NoneType' object has no attribute 'parts'"
msg_not_iterable == "'NoneType' object is not iterable"

\* str(e) of the EOFError input() raises at line 364 when stdin is closed
msg_eof == "EOF when reading a line"

\* str(e) of line 543 when function_response_content is a coroutine
msg_coroutine == "'coroutine' object is not iterable"

(***************************************************************************)
(* Conversation entries keep the role, the producer and the turn of the    *)
(* Content the program stores; turn records keep the turn number and       *)
(* whether they are a summary (lines 546-551) or a fault (lines 560-564).  *)
(***************************************************************************)
\* lines 448-454
SeedEntry == [role |-> "user", kind |-> "seed", turn |-> 0]
\* line 486: candidate.content
ModelEntry(t) == [role |-> "model", kind |-> "model", turn |-> t]
\* line 486 when candidate.content is None: the list gets None, which is
\* no Content and has no role
NoneEntry(t) == [kind |-> "None", turn |-> t]
\* line 420: Content(role="user", parts=content_parts)
ToolEntry(t) == [role |-> "user", kind |-> "tool", turn |-> t]

\* A record that numbers the turns from 0, as the loop variable does.
TurnSummary_zero_based(t) == [turn |-> t, kind |-> "summary"]

\* lines 546-551
TurnSummary(t) == [turn |-> t + 1, kind |-> "summary"]

\* A fault recorded under the number of the turn before.
TurnFault_previous_turn(t, msg) == [turn |-> t, kind |-> "error", error |-> msg]

\* lines 560-564
TurnFault(t, msg) == [turn |-> t + 1, kind |-> "error", error |-> msg]

\* lines 567-571: what the function does after the loop
Finished(res, url) == [res EXCEPT !.final_url = url]

\* line 554
AllFailed(outcomes) ==
    \A i \in 1..Len(outcomes) : outcomes[i].status \in {"error", "cancelled"}

(***************************************************************************)
(* Observation builder.  The URL of a record is self.current_url as it is  *)
(* when the record is built; take_screenshot then sets it to the page's    *)
(* URL.                                                                    *)
(***************************************************************************)
Image == [mime_type |-> "image/png"]

\* lines 385-401: the FunctionResponse of one result, before its screenshot
FunctionResponseOf(result, url) ==
    LET base == [status |-> result.status, url |-> url, timestamp |-> "time"]
        response_data == IF result.status = "success"
                         THEN result.result @@ base
                         ELSE base
    IN [name |-> result.function_name, response |-> response_data,
        parts |-> <<>>]

\* lines 406-416: the screenshot is attached when the task returned one
Attached(response, task) ==
    IF task = "done" THEN [response EXCEPT !.parts = <<Image>>] ELSE response

\* line 418: content_parts.append(Part(function_response=function_response))
Appended(parts, response) == Append(parts, response)

\* lines 384-401 for one result: the record is built with self.current_url
\* as it is then
Building(result, url) == <<FunctionResponseOf(result, url)>>

(***************************************************************************)
(* run_agent_loop.  The locals of a turn (function_calls,                  *)
(* function_results, function_dict, reason, the batch) are not read again  *)
(* once the turn's record is written; the model empties them there, and    *)
(* the logs of the turn with them.                                         *)
(***************************************************************************)
NoUrl == ""                    \* initial_url = None
BlankUrl == "about:blank"
NoCall == [name |-> "", args |-> <<>>]

Init ==
    /\ pc = "INIT"
    /\ max_turns \in {1, MaxTurns}
    /\ safety_confirmation \in BOOLEAN
    /\ initial_url \in {NoUrl, ExampleUrl}
    /\ turn = 0
    /\ conversation_history = <<>>
    /\ results = [success |-> FALSE, turns |-> <<>>,
                  initial_url |-> NoUrl, final_url |-> NoUrl]
    /\ function_calls = <<>>
    /\ function_results = <<>>
    /\ function_dict = NoCall
    /\ reason = ""
    /\ function_response_content = <<>>
    /\ page_url = BlankUrl
    /\ current_url = NoUrl
    /\ contents = <<>>
    /\ call_turns = <<>>
    /\ confirm_log = <<>>
    /\ exec_log = <<>>
    /\ call_index = 1
    /\ invalid_answers = 0
    /\ exit_path = "running"
    /\ candidate = <<>>
    /\ started = <<>>
    /\ content_parts = <<>>
    /\ function_response = <<>>
    /\ screenshot = "unbound"
    /\ builder_awaited \in BOOLEAN
    /\ evaluations = <<>>

TurnLocalsUnchanged ==
    UNCHANGED <<function_calls, function_results, function_dict, reason,
                function_response_content, confirm_log, exec_log, call_index,
                invalid_answers, content_parts, function_response,
                screenshot>>

TurnLocalsEmptied ==
    /\ function_calls' = <<>>
    /\ function_results' = <<>>
    /\ function_dict' = NoCall
    /\ reason' = ""
    /\ function_response_content' = <<>>
    /\ confirm_log' = <<>>
    /\ exec_log' = <<>>
    /\ call_index' = 1
    /\ invalid_answers' = 0
    /\ content_parts' = <<>>
    /\ function_response' = <<>>
    /\ screenshot' = "unbound"

ConfigUnchanged ==
    UNCHANGED <<max_turns, safety_confirmation, initial_url, builder_awaited>>

\* The loop makes no call that is logged in evaluations.
LoopOnly == UNCHANGED evaluations

\* The operation the task is suspended in.
Awaiting == IF started = <<>> THEN "" ELSE started[Len(started)]

\* lines 439-445: run_agent_loop runs up to its first await
InitStart ==
    /\ pc = "INIT"
    /\ started = <<>>
    /\ started' = IF initial_url # NoUrl THEN <<"goto">> ELSE <<"screenshot">>
    /\ UNCHANGED <<pc, turn, conversation_history, results, page_url,
                   current_url, contents, call_turns, exit_path, candidate>>
    /\ TurnLocalsUnchanged /\ ConfigUnchanged /\ LoopOnly

\* lines 441-442: goto returns, the page shows initial_url
InitGoto ==
    /\ pc = "INIT"
    /\ Awaiting = "goto"
    /\ page_url' = initial_url
    /\ started' = Append(started, "wait_for_load_state")
    /\ UNCHANGED <<pc, turn, conversation_history, results, current_url,
                   contents, call_turns, exit_path, candidate>>
    /\ TurnLocalsUnchanged /\ ConfigUnchanged /\ LoopOnly

\* lines 442-445: wait_for_load_state returns, take_screenshot is entered
InitLoaded ==
    /\ pc = "INIT"
    /\ Awaiting = "wait_for_load_state"
    /\ started' = Append(started, "screenshot")
    /\ UNCHANGED <<pc, turn, conversation_history, results, page_url,
                   current_url, contents, call_turns, exit_path, candidate>>
    /\ TurnLocalsUnchanged /\ ConfigUnchanged /\ LoopOnly

\* lines 175-176 and 445-472: the screenshot returns, the history is seeded
InitRun ==
    /\ pc = "INIT"
    /\ Awaiting = "screenshot"
    /\ current_url' = page_url
    /\ results' = [success |-> FALSE, turns |-> <<>>,
                   initial_url |-> IF initial_url # NoUrl THEN initial_url
                                   ELSE page_url,
                   final_url |-> page_url]
    /\ conversation_history' = <<SeedEntry>>
    /\ turn' = 0
    /\ pc' = "AWAITING_MODEL"
    /\ started' = <<>>
    /\ UNCHANGED <<page_url, contents, call_turns, exit_path, candidate>>
    /\ TurnLocalsUnchanged /\ ConfigUnchanged /\ LoopOnly

\* lines 441-442: goto or wait_for_load_state raises; nothing catches it
InitNavigationFault ==
    /\ pc = "INIT"
    /\ Awaiting \in {"goto", "wait_for_load_state"}
    /\ pc' = "RAISED"
    /\ exit_path' = "exception"
    /\ UNCHANGED <<turn, conversation_history, results, page_url, current_url,
                   contents, call_turns, candidate, started>>
    /\ TurnLocalsUnchanged /\ ConfigUnchanged /\ LoopOnly

\* line 445: take_screenshot raises; nothing catches it
InitScreenshotFault ==
    /\ pc = "INIT"
    /\ Awaiting = "screenshot"
    /\ pc' = "RAISED"
    /\ exit_path' = "exception"
    /\ UNCHANGED <<turn, conversation_history, results, page_url, current_url,
                   contents, call_turns, candidate, started>>
    /\ TurnLocalsUnchanged /\ ConfigUnchanged /\ LoopOnly

\* line 481: contents=self.conversation_history
ContentsOf(history) == history

\* The service is called with the history (lines 479-483).
Called ==
    /\ contents' = ContentsOf(conversation_history)
    /\ call_turns' = Append(call_turns, turn)

\* lines 479-485 and 558-565: the call raises, or response.candidates[0]
\* raises: IndexError on an empty list, TypeError on None
ServiceFault ==
    /\ pc = "AWAITING_MODEL"
    /\ Called
    /\ \E msg \in {msg_service, msg_index, msg_subscript} :
         results' = Finished([results EXCEPT
                                !.turns = Append(@, TurnFault(turn, msg))],
                             current_url)
    /\ pc' = "FAILED"
    /\ exit_path' = "fault"
    /\ UNCHANGED <<turn, conversation_history, page_url, current_url, candidate>>
    /\ TurnLocalsUnchanged /\ ConfigUnchanged /\ LoopOnly
    /\ UNCHANGED started

\* lines 485-489 and 558-565: the candidate has no content, or the content
\* has no parts; the content is appended before the fault shows
ServiceMalformed ==
    /\ pc = "AWAITING_MODEL"
    /\ Called
    /\ \E malformed \in {<<NoneEntry(turn), msg_no_parts>>,
                          <<ModelEntry(turn), msg_not_iterable>>} :
         /\ conversation_history' =
                Append(conversation_history, malformed[1])
         /\ results' =
                Finished([results EXCEPT
                            !.turns = Append(@, TurnFault(turn, malformed[2]))],
                         current_url)
    /\ pc' = "FAILED"
    /\ exit_path' = "fault"
    /\ UNCHANGED <<turn, page_url, current_url, candidate>>
    /\ TurnLocalsUnchanged /\ ConfigUnchanged /\ LoopOnly
    /\ UNCHANGED started

\* A final response that keeps the first text only.
Answered_first_text(res, parts) ==
    [success |-> TRUE,
     final_response |-> IF TextsOf(parts) = <<>> THEN "" ELSE TextsOf(parts)[1]]
    @@ res

\* A loop that stores the final response and leaves the success flag as it is.
Answered_unflagged(res, parts) ==
    [final_response |-> Join(TextsOf(parts))] @@ res

\* lines 491-493: the result of a run that ends on a final response
Answered(res, parts) ==
    [success |-> TRUE, final_response |-> Join(TextsOf(parts))] @@ res

\* lines 485-495: a response without function calls ends the run
ServiceAnswer ==
    /\ pc = "AWAITING_MODEL"
    /\ Called
    /\ \E parts \in Responses :
         /\ ~HasCalls(parts)
         /\ conversation_history' =
                Append(conversation_history, ModelEntry(turn))
         /\ results' = Finished(Answered(results, parts), current_url)
         /\ candidate' = parts
    /\ pc' = "DONE"
    /\ exit_path' = "answer"
    /\ UNCHANGED <<turn, page_url, current_url>>
    /\ TurnLocalsUnchanged /\ ConfigUnchanged /\ LoopOnly
    /\ UNCHANGED started

\* lines 485-499: a response with function calls starts the dispatch
ServiceIntents ==
    /\ pc = "AWAITING_MODEL"
    /\ Called
    /\ \E parts \in Responses :
         /\ HasCalls(parts)
         /\ conversation_history' =
                Append(conversation_history, ModelEntry(turn))
         /\ function_calls' = CallsOf(parts)
    /\ function_results' = <<>>
    /\ call_index' = 1
    /\ pc' = "DISPATCHING_INTENTS"
    /\ UNCHANGED <<turn, results, function_dict, reason,
                   function_response_content, page_url, current_url,
                   confirm_log, exec_log, invalid_answers, exit_path, candidate>>
    /\ ConfigUnchanged /\ LoopOnly
    /\ UNCHANGED <<started, content_parts, function_response, screenshot>>

\* lines 502-505: the dict handed to the gate and the executor
FunctionDict(function_call) ==
    [name |-> function_call.name, args |-> function_call.args]

\* A loop that asks whether or not confirmation is enabled.
NeedsConfirmation_always(fd) == check_safety_decision(fd)[1]

\* A loop that never asks.
NeedsConfirmation_never(fd) == FALSE

\* lines 508-510: whether the loop asks before this intent runs
NeedsConfirmation(fd) == safety_confirmation /\ check_safety_decision(fd)[1]

\* lines 501-511: the next intent meets the gate
DispatchIntent ==
    /\ pc = "DISPATCHING_INTENTS"
    /\ call_index <= Len(function_calls)
    /\ LET fd == FunctionDict(function_calls[call_index]) IN
          /\ function_dict' = fd
          /\ IF NeedsConfirmation(fd)
             THEN /\ reason' = check_safety_decision(fd)[2]
                  /\ pc' = "AWAITING_CONFIRMATION"
             ELSE /\ reason' = ""
                  /\ pc' = "EXECUTING"
    /\ invalid_answers' = 0
    /\ UNCHANGED <<turn, conversation_history, results, function_calls,
                   function_results, function_response_content, page_url,
                   current_url, contents, call_turns, confirm_log, exec_log,
                   call_index, exit_path, candidate>>
    /\ ConfigUnchanged /\ LoopOnly
    /\ UNCHANGED <<started, content_parts, function_response, screenshot>>

\* After an outcome: the next intent, or the end of the batch.
AfterOutcome ==
    /\ call_index' = call_index + 1
    /\ pc' = IF call_index < Len(function_calls) THEN "DISPATCHING_INTENTS"
             ELSE "BATCH_COMPLETION"

\* lines 542 and 382-406 after the last outcome: in the build that awaits
\* the builder the loop runs on, without a suspension, into
\* create_function_responses up to "await screenshot" for the first result;
\* in the other build no statement of the builder runs
BuilderEntered ==
    IF call_index >= Len(function_calls) /\ builder_awaited
    THEN /\ function_response' = Building(function_results'[1], current_url)
         /\ screenshot' = "pending"
    ELSE UNCHANGED <<function_response, screenshot>>

\* lines 363-370: an answer that is neither yes nor no prompts again.  The
\* "while True" has no bound: invalid_answers counts the rejected answers
\* modulo MaxInvalid + 1.
ConfirmInvalid ==
    /\ pc = "AWAITING_CONFIRMATION"
    /\ invalid_answers' = (invalid_answers + 1) % (MaxInvalid + 1)
    /\ UNCHANGED <<pc, turn, conversation_history, results, function_calls,
                   function_results, function_dict, reason,
                   function_response_content, page_url, current_url, contents,
                   call_turns, confirm_log, exec_log, call_index, exit_path, candidate>>
    /\ ConfigUnchanged /\ LoopOnly
    /\ UNCHANGED <<started, content_parts, function_response, screenshot>>

\* One line of the log of confirmations.
Asked(answer) ==
    [index |-> call_index, call |-> function_dict, reason |-> reason,
     confirmed |-> answer]

\* line 523
Acknowledged(fd) ==
    [fd EXCEPT !.args = DictSet(@, k_safety_acknowledged, StrVal(s_true))]

\* lines 365-366 and 522-523: yes
ConfirmYes ==
    /\ pc = "AWAITING_CONFIRMATION"
    /\ confirm_log' = Append(confirm_log, Asked(TRUE))
    /\ function_dict' = Acknowledged(function_dict)
    /\ pc' = "EXECUTING"
    /\ UNCHANGED <<turn, conversation_history, results, function_calls,
                   function_results, reason, function_response_content,
                   page_url, current_url, contents, call_turns, exec_log,
                   call_index, invalid_answers, exit_path, candidate>>
    /\ ConfigUnchanged /\ LoopOnly
    /\ UNCHANGED <<started, content_parts, function_response, screenshot>>

\* lines 514-520: the outcome of a declined intent
CancelledOutcome(fd, why) ==
    [function_name |-> fd.name,
     result |-> [status |-> "cancelled", reason |-> why] @@ fd,
     status |-> "cancelled"]

\* lines 367-368 and 512-521: no
ConfirmNo ==
    /\ pc = "AWAITING_CONFIRMATION"
    /\ confirm_log' = Append(confirm_log, Asked(FALSE))
    /\ function_results' =
            Append(function_results, CancelledOutcome(function_dict, reason))
    /\ AfterOutcome
    /\ BuilderEntered
    /\ UNCHANGED <<turn, conversation_history, results, function_calls,
                   function_dict, reason, function_response_content, page_url,
                   current_url, contents, call_turns, exec_log,
                   invalid_answers, exit_path, candidate>>
    /\ ConfigUnchanged /\ LoopOnly
    /\ UNCHANGED <<started, content_parts>>

\* line 364 and 558-565: input() raises EOFError (stdin is closed); it leaves
\* ask_user_confirmation and line 511 and is caught by the handler of the turn
ConfirmEOF ==
    /\ pc = "AWAITING_CONFIRMATION"
    /\ results' = Finished([results EXCEPT
                              !.turns = Append(@, TurnFault(turn, msg_eof))],
                           current_url)
    /\ pc' = "FAILED"
    /\ exit_path' = "fault"
    /\ UNCHANGED <<turn, conversation_history, page_url, current_url, contents,
                   call_turns, candidate, started>>
    /\ TurnLocalsUnchanged /\ ConfigUnchanged /\ LoopOnly

\* lines 528-532: the outcome of an executed intent
ExecutedOutcome(fd, execution_result) ==
    [function_name |-> fd.name,
     result |-> execution_result,
     status |-> IF "status" \in DOMAIN execution_result
                THEN execution_result.status ELSE "unknown"]

\* s is a prefix of t
IsPrefix(s, t) == Len(s) <= Len(t) /\ SubSeq(t, 1, Len(s)) = s

\* What execute_function_call can do for fd on a page, over the ways the
\* browser answers.
Runs(fd, page) == {execute_function_call(fd, be, page) : be \in Backends}

\* The ways the call in progress can go on: it has awaited the operations
\* started so far, and the page is where a returned operation left it.
Agreeing ==
    {r \in Runs(function_dict, page_url) :
        /\ IsPrefix(started, r.ops)
        /\ Len(started) >= 2 => r.page_url = page_url}

\* line 527: execute_function_call runs up to its next await: the operation
\* it was suspended in has returned (or, at line 268, raised into the
\* fallback), and the next browser operation is started
ExecuteOperation ==
    /\ pc = "EXECUTING"
    /\ \E r \in Agreeing :
         /\ Len(r.ops) > Len(started)
         /\ started' = SubSeq(r.ops, 1, Len(started) + 1)
         /\ page_url' = IF started = <<>> THEN page_url ELSE r.page_url
    /\ UNCHANGED <<pc, turn, conversation_history, results, current_url,
                   contents, call_turns, exit_path, candidate>>
    /\ TurnLocalsUnchanged /\ ConfigUnchanged /\ LoopOnly

\* lines 526-532: execute_function_call returns, the outcome is appended
Execute ==
    /\ pc = "EXECUTING"
    /\ \E ran \in Agreeing :
         /\ ran.ops = started
         /\ function_results' =
                Append(function_results, ExecutedOutcome(function_dict, ran.result))
         /\ page_url' = ran.page_url
         /\ exec_log' = Append(exec_log,
                [index |-> call_index, call |-> function_dict, ops |-> ran.ops,
                 raised |-> ran.raised, swallowed |-> ran.swallowed])
    /\ started' = <<>>
    /\ AfterOutcome
    /\ BuilderEntered
    /\ UNCHANGED <<turn, conversation_history, results, function_calls,
                   function_dict, reason, function_response_content,
                   current_url, contents, call_turns, confirm_log,
                   invalid_answers, exit_path, candidate, content_parts>>
    /\ ConfigUnchanged /\ LoopOnly

\* lines 405 and 175: the task of the screenshot takes its first step and
\* calls page.screenshot
BuildStart ==
    /\ pc = "BATCH_COMPLETION"
    /\ screenshot = "pending"
    /\ started' = Append(started, "screenshot")
    /\ screenshot' = "running"
    /\ UNCHANGED <<pc, turn, conversation_history, results, page_url,
                   current_url, contents, call_turns, exit_path, candidate,
                   function_calls, function_results, function_dict, reason,
                   function_response_content, confirm_log, exec_log,
                   call_index, invalid_answers, content_parts,
                   function_response>>
    /\ ConfigUnchanged /\ LoopOnly

\* lines 175-177 in the task of the screenshot: page.screenshot returns,
\* self.current_url is set and the task is done; or page.screenshot raises
\* and the task ends with the exception.  The loop's task has not resumed.
BuildScreenshot ==
    /\ pc = "BATCH_COMPLETION"
    /\ screenshot = "running"
    /\ \/ screenshot' = "done" /\ current_url' = page_url
       \/ screenshot' = "failed" /\ current_url' = current_url
    /\ UNCHANGED <<pc, turn, conversation_history, results, page_url,
                   contents, call_turns, exit_path, candidate, started,
                   function_calls, function_results, function_dict, reason,
                   function_response_content, confirm_log, exec_log,
                   call_index, invalid_answers, content_parts,
                   function_response>>
    /\ ConfigUnchanged /\ LoopOnly

\* lines 406-420 and 384-405: the loop's task resumes from "await
\* screenshot" with the image or in the handler of line 415; the record,
\* built before the screenshot, is appended; the builder goes on to the next
\* result, up to its "await screenshot", or returns the batch
BuildObservation ==
    /\ pc = "BATCH_COMPLETION"
    /\ screenshot \in {"done", "failed"}
    /\ content_parts' =
           Appended(content_parts, Attached(function_response[1], screenshot))
    /\ IF Len(content_parts) + 1 < Len(function_results)
       THEN /\ function_response' =
                   Building(function_results[Len(content_parts) + 2], current_url)
            /\ screenshot' = "pending"
            /\ started' = started
            /\ pc' = pc
            /\ function_response_content' = function_response_content
       ELSE /\ function_response' = <<>>
            /\ screenshot' = "unbound"
            /\ started' = <<>>
            /\ pc' = "MERGING"
            /\ function_response_content' = content_parts'
    /\ UNCHANGED <<turn, conversation_history, results, function_calls,
                   function_results, function_dict, reason, page_url,
                   current_url, contents, call_turns, confirm_log, exec_log,
                   call_index, invalid_answers, exit_path, candidate>>
    /\ ConfigUnchanged /\ LoopOnly

\* lines 542-543 and 558-565 in the build that does not await the builder:
\* function_response_content is a coroutine that never runs, extend raises
\* TypeError, and the turn is recorded as a fault
BuildUnawaited ==
    /\ pc = "BATCH_COMPLETION"
    /\ ~builder_awaited
    /\ results' = Finished([results EXCEPT
                              !.turns = Append(@, TurnFault(turn, msg_coroutine))],
                           current_url)
    /\ pc' = "FAILED"
    /\ exit_path' = "fault"
    /\ UNCHANGED <<turn, conversation_history, page_url, current_url, contents,
                   call_turns, candidate, started>>
    /\ TurnLocalsUnchanged /\ ConfigUnchanged /\ LoopOnly

\* line 543: self.conversation_history.extend([Content(role="user", ...)])
Merged(history, t) == Append(history, ToolEntry(t))

\* lines 546-551
Recorded(res, t) == [res EXCEPT !.turns = Append(@, TurnSummary(t))]

\* A loop that runs one turn more than the budget.
MoreTurns_inclusive(t) == t + 1 <= max_turns

\* line 474: "for turn in range(self.config.max_turns)" has a next turn
MoreTurns(t) == t + 1 < max_turns

\* lines 543-556 and 474: the batch is merged, the turn recorded, and the
\* loop goes on or is left
MergeObservation ==
    /\ pc = "MERGING"
    /\ conversation_history' =
           Merged(conversation_history, turn)
    /\ LET recorded == Recorded(results, turn)
       IN IF AllFailed(function_results)
          THEN /\ results' = Finished(recorded, current_url)
               /\ pc' = "DONE"
               /\ exit_path' = "all_failed"
               /\ turn' = turn
          ELSE IF MoreTurns(turn)
          THEN /\ results' = recorded
               /\ pc' = "AWAITING_MODEL"
               /\ exit_path' = exit_path
               /\ turn' = turn + 1
          ELSE /\ results' = Finished(recorded, current_url)
               /\ pc' = "DONE"
               /\ exit_path' = "exhausted"
               /\ turn' = turn
    /\ TurnLocalsEmptied
    /\ UNCHANGED <<page_url, current_url, contents, call_turns, candidate>>
    /\ ConfigUnchanged /\ LoopOnly
    /\ UNCHANGED started

\* line 406: the task that runs run_agent_loop is cancelled while it waits
\* for the task of the screenshot, which has not ended.  The cancellation is
\* passed on to that task first: it ends cancelled, without setting
\* self.current_url.  The loop's task has not resumed.
CancelScreenshot ==
    /\ pc = "BATCH_COMPLETION"
    /\ screenshot \in {"pending", "running"}
    /\ screenshot' = "cancelled"
    /\ UNCHANGED <<pc, turn, conversation_history, results, page_url,
                   current_url, contents, call_turns, exit_path, candidate,
                   started, function_calls, function_results, function_dict,
                   reason, function_response_content, confirm_log, exec_log,
                   call_index, invalid_answers, content_parts,
                   function_response>>
    /\ ConfigUnchanged /\ LoopOnly

\* The await the cancellation meets is the element click of type_text_at
\* (line 267), inside the bare except of line 268.
InBareExcept ==
    /\ pc = "EXECUTING"
    /\ function_dict.name = s_type_text_at
    /\ started = <<"click">>

\* A cancellation of the task that runs run_agent_loop is delivered as
\* CancelledError where the task is suspended: before its first step, in a
\* browser operation of the start (lines 441-445) or of the executor (line
\* 527), in the sleep of line 315, or in "await screenshot" (line 406) once
\* the task of the screenshot has ended (done, failed or cancelled).  It is
\* no Exception, so no "except Exception" (lines 342, 415, 533, 558)
\* catches it, and it leaves run_agent_loop.  The bare except of line 268
\* does catch it: there the call goes on with the pointer click
\* (ExecuteOperation), and the run is not cancelled.
CancelRun ==
    /\ \/ pc = "INIT"
       \/ pc = "EXECUTING" /\ started # <<>> /\ ~InBareExcept
       \/ pc = "EXECUTING" /\ function_dict.name = s_wait_5_seconds
       \/ /\ pc = "BATCH_COMPLETION"
          /\ screenshot \in {"done", "failed", "cancelled"}
    /\ pc' = "CANCELLED"
    /\ exit_path' = "cancelled"
    /\ UNCHANGED <<turn, conversation_history, results, page_url, current_url,
                   contents, call_turns, candidate, started>>
    /\ TurnLocalsUnchanged /\ ConfigUnchanged /\ LoopOnly

Next ==
    \/ InitStart
    \/ InitGoto
    \/ InitLoaded
    \/ InitRun
    \/ InitNavigationFault
    \/ InitScreenshotFault
    \/ ServiceFault
    \/ ServiceMalformed
    \/ ServiceAnswer
    \/ ServiceIntents
    \/ DispatchIntent
    \/ ConfirmInvalid
    \/ ConfirmYes
    \/ ConfirmNo
    \/ ConfirmEOF
    \/ ExecuteOperation
    \/ Execute
    \/ BuildStart
    \/ BuildScreenshot
    \/ BuildObservation
    \/ BuildUnawaited
    \/ MergeObservation
    \/ CancelScreenshot
    \/ CancelRun

Spec == Init /\ [][Next]_vars

(***************************************************************************)
(* Properties.                                                             *)
(***************************************************************************)
Last(seq) == seq[Len(seq)]

\* The gate's decision for every dict the loop can hand to it.
GateTable ==
    [fd \in {FunctionDict(fc) : fc \in ServiceCalls} |->
        check_safety_decision(fd)]

\* What the gate returned for the i-th intent of the turn.
GateOf(i) == GateTable[FunctionDict(function_calls[i])]

\* The executor was invoked for the i-th intent of the turn.
Executed(i) == \E k \in 1..Len(exec_log) : exec_log[k].index = i

\* The confirmation for the i-th intent of the turn was answered with a.
Answered_with(i, a) ==
    \E j \in 1..Len(confirm_log) :
        /\ confirm_log[j].index = i
        /\ confirm_log[j].confirmed = a
        /\ confirm_log[j].call = FunctionDict(function_calls[i])

\* C1: with max_turns = N a run makes at most N reasoning-service calls, and
\* the turn counter strictly increases from one service call to the next.
C1_BoundedCalls ==
    /\ Len(call_turns) <= max_turns
    /\ \A i \in 1..(Len(call_turns) - 1) : call_turns[i] < call_turns[i + 1]
    /\ \A i \in 1..Len(call_turns) : call_turns[i] < max_turns

C1_Witness ==
    /\ pc = "DONE"
    /\ exit_path = "exhausted"
    /\ max_turns = MaxTurns
    /\ Len(call_turns) = MaxTurns

\* C2: with confirmation enabled, an intent for which the gate returned
\* requires_confirmation is handed to the executor only after the user said
\* yes to that intent; a declined intent is never executed and has exactly one
\* outcome, with status cancelled and the gate's reason in its payload.
C2_ConfirmBeforeExecute ==
    safety_confirmation =>
        /\ Len(function_results) = call_index - 1
        /\ pc = "EXECUTING" /\ GateOf(call_index)[1] =>
                Answered_with(call_index, TRUE)
        /\ \A i \in 1..Len(function_calls) :
                Executed(i) /\ GateOf(i)[1] => Answered_with(i, TRUE)
        /\ \A i \in 1..Len(function_calls) :
                Answered_with(i, FALSE) =>
                    /\ ~Executed(i)
                    /\ Len(function_results) >= i
                    /\ function_results[i].function_name = function_calls[i].name
                    /\ function_results[i].status = "cancelled"
                    /\ function_results[i].result.status = "cancelled"
                    /\ function_results[i].result.reason = GateOf(i)[2]
                    /\ function_results[i].result.reason # ""

C2_Witness ==
    /\ safety_confirmation
    /\ pc = "MERGING"
    /\ Len(function_calls) = 2
    /\ Answered_with(1, FALSE)
    /\ Answered_with(2, TRUE)
    /\ Executed(2)

\* C3: with confirmation enabled, every intent the service issues with risk
\* metadata of kind "requires confirmation" is asked about, with the
\* metadata's explanation as reason, before the executor is invoked for it.
C3_MetadataAsked ==
    safety_confirmation =>
        \A i \in 1..Len(function_calls) :
            MetadataRequires(function_calls[i]) /\ Executed(i) =>
                \E j \in 1..Len(confirm_log) :
                    /\ confirm_log[j].index = i
                    /\ confirm_log[j].confirmed
                    /\ confirm_log[j].reason = MetadataReason(function_calls[i])

\* C4: a turn whose outcomes are all error or cancelled is merged and
\* recorded, and then the run ends without another service call, with
\* success = false and the reason "no progress" in the result.
C4_NoProgress ==
    exit_path = "all_failed" =>
        /\ pc = "DONE"
        /\ Last(conversation_history) = ToolEntry(turn)
        /\ Last(results.turns) = TurnSummary(turn)
        /\ Len(call_turns) = turn + 1
        /\ results.success = FALSE
        /\ "reason" \in DOMAIN results
        /\ results.reason = "no progress"

\* The text of a response: its non-empty texts, one space between them.
C5_Text ==
    /\ (\A i \in 1..Len(candidate) : ~HasText(candidate[i]))
            => results.final_response = ""
    /\ candidate = <<[text |-> s_done]>> => results.final_response = "done"
    /\ candidate = <<[text |-> ""], [text |-> s_done]>>
            => results.final_response = "done"
    /\ candidate = <<[text |-> s_done], [text |-> s_done]>>
            => results.final_response = "done done"
    /\ \A i \in 1..Len(candidate) :
            HasText(candidate[i])
                => Contains(results.final_response, candidate[i].text)

C5_State ==
    exit_path = "answer" =>
        /\ pc = "DONE"
        /\ ~HasCalls(candidate)
        /\ Last(conversation_history) = ModelEntry(turn)
        /\ results.success = TRUE
        /\ "final_response" \in DOMAIN results
        /\ C5_Text
        /\ exec_log = <<>> /\ confirm_log = <<>> /\ function_results = <<>>
        /\ Len(call_turns) = turn + 1
        /\ Len(results.turns) = turn

\* C5: a response without intents is appended to the history and ends the
\* run with success = true and the response's text as final answer; no
\* executor call, no confirmation and no service call follows.
C5_FinalAnswer ==
    /\ []C5_State
    /\ [][pc = "DONE" => UNCHANGED vars]_vars

C5_Witness ==
    /\ exit_path = "answer"
    /\ turn = 1
    /\ results.final_response = "done done"

\* C6: with max_turns = N, a run in which every turn has intents and an
\* outcome that is neither error nor cancelled ends after exactly N turns
\* with success = false and the reason "turn budget exhausted" in the result.
C6_BudgetExhausted ==
    exit_path = "exhausted" =>
        /\ pc = "DONE"
        /\ Len(call_turns) = max_turns
        /\ Len(results.turns) = max_turns
        /\ results.success = FALSE
        /\ "reason" \in DOMAIN results
        /\ results.reason = "turn budget exhausted"

\* str(e) of the faults of a service call and of its response
ServiceFaultTexts ==
    {msg_service, msg_index, msg_subscript, msg_no_parts, msg_not_iterable}

C7_State ==
    exit_path = "fault" /\ Last(results.turns).error \in ServiceFaultTexts =>
        /\ pc = "FAILED"
        /\ results.success = FALSE
        /\ Len(results.turns) = turn + 1
        /\ Last(results.turns).turn = turn + 1
        /\ Last(results.turns).kind = "error"
        /\ \A i \in 1..turn : results.turns[i] = TurnSummary(i - 1)
        /\ exec_log = <<>> /\ confirm_log = <<>> /\ function_results = <<>>
        /\ Len(call_turns) = turn + 1

\* C7: a service call of turn k that fails or returns malformed data is
\* recorded as a fault on turn k's entry of the result; no intent of that
\* turn is executed, no service call follows, and success = false.
C7_ServiceFault ==
    /\ []C7_State
    /\ [][pc = "FAILED" => UNCHANGED vars]_vars

C7_Witness ==
    /\ pc = "FAILED"
    /\ turn = 1
    /\ Last(conversation_history) = NoneEntry(1)

\* C8: no fault reaches the caller of run_agent_loop: whatever fails, the
\* call returns a result.
C8_NoUncaughtFault == pc # "RAISED" /\ exit_path # "exception"

\* The outcome of the i-th intent comes from one executor call or from one
\* declined confirmation, never from both.
OutcomeSources(i) ==
    Cardinality({k \in 1..Len(exec_log) : exec_log[k].index = i})
    + Cardinality({j \in 1..Len(confirm_log) :
                       confirm_log[j].index = i /\ ~confirm_log[j].confirmed})

C9_State ==
    /\ Len(function_results) = call_index - 1
    /\ \A i \in 1..Len(function_results) :
            /\ function_results[i].function_name = function_calls[i].name
            /\ OutcomeSources(i) = 1
    /\ pc = "MERGING" =>
            /\ Len(function_results) = Len(function_calls)
            /\ Len(function_response_content) = Len(function_calls)
            /\ \A i \in 1..Len(function_calls) :
                    /\ function_response_content[i].name = function_calls[i].name
                    /\ function_response_content[i].response.status
                            = function_results[i].status

\* Once every intent of the turn has its outcome the batch is built, and the
\* batch that was built is merged into the history.
C9_Step ==
    /\ (pc = "BATCH_COMPLETION" /\ pc' # pc) => pc' \in {"MERGING", "CANCELLED"}
    /\ pc = "MERGING" =>
            conversation_history' = Append(conversation_history, ToolEntry(turn))

\* C9: in a turn that dispatches intents every intent has exactly one
\* outcome and exactly one tool-result entry in the batch that is merged into
\* the history, in the order of the intents, whatever the outcome is and
\* whether or not the screenshots succeed.
C9_OutcomeCompleteness ==
    /\ []C9_State
    /\ [][C9_Step]_vars

HistoryAlternates ==
    IF pc \in {"INIT", "RAISED"} \/ (pc = "CANCELLED" /\ call_turns = <<>>)
    THEN conversation_history = <<>>
    ELSE /\ conversation_history # <<>>
         /\ conversation_history[1] = SeedEntry
         /\ \A i \in 2..Len(conversation_history) :
                /\ "role" \in DOMAIN conversation_history[i]
                /\ conversation_history[i].role # conversation_history[i - 1].role
                /\ conversation_history[i].kind =
                        IF i % 2 = 0 THEN "model" ELSE "tool"

HistoryAppendOnly ==
    /\ Len(conversation_history') \in
            {Len(conversation_history), Len(conversation_history) + 1}
    /\ SubSeq(conversation_history', 1, Len(conversation_history))
            = conversation_history

\* C10: within a run the history is append-only and alternating: it starts
\* as the seed entry, changes only by an entry appended at its end, and the
\* roles of neighbouring entries differ (seed, model, tool, model, ...).
C10_AppendOnlyAlternating ==
    /\ []HistoryAlternates
    /\ [][HistoryAppendOnly]_vars

\* The history a service call of turn t is given: the seed, then the model
\* response and the tool batch of every turn before t, in order.
FullHistory(h, t) ==
    /\ Len(h) = 2 * t + 1
    /\ h[1] = SeedEntry
    /\ \A j \in 1..t : h[2 * j] = ModelEntry(j - 1) /\ h[2 * j + 1] = ToolEntry(j - 1)

C11_State ==
    /\ call_turns # <<>> => FullHistory(contents, Last(call_turns))
    /\ \A i \in 1..Len(call_turns) : call_turns[i] = i - 1
    /\ pc = "AWAITING_MODEL" => FullHistory(conversation_history, turn)

\* A turn that made progress and has budget left is followed by the next
\* turn's service call, and by nothing else.
C11_Step ==
    /\ pc = "BATCH_COMPLETION" /\ pc' # pc
       /\ ~AllFailed(function_results) /\ turn + 1 < max_turns
            => pc' \in {"MERGING", "CANCELLED"}
    /\ pc = "MERGING" /\ ~AllFailed(function_results) /\ turn + 1 < max_turns
            => pc' = "AWAITING_MODEL" /\ turn' = turn + 1
    /\ pc = "AWAITING_MODEL"
            => call_turns' = Append(call_turns, turn)
               /\ contents' = conversation_history

\* C11: the loop is sequential: after a turn with progress and budget left
\* the next service call is issued; every service call after the first comes
\* after the merge of the previous turn's batch and is given the full ordered
\* history (seed, every model response and every tool batch so far).
C11_Sequential ==
    /\ []C11_State
    /\ [][C11_Step]_vars

(***************************************************************************)
(* The safety gate called directly.  check_safety_decision is a method of  *)
(* the agent; GateEvaluate is one call of it from outside the loop, at any *)
(* point of a run, with a function call that may carry safety_decision.    *)
(***************************************************************************)
MaxEvaluations == 2    \* direct calls of the gate in one behaviour

s_download_report == "Download_Report"
s_attach == "attach"
k_file_id == "file_id"
s_my_password == "My Password"

Flagged(fc, decision) == [safety_decision |-> decision] @@ fc

\* The function calls the gate is given.
GateIntents == {
    fc_click,
    fc_click_flagged,
    Flagged(fc_click, [type |-> "require_confirmation"]),
    Flagged(fc_click, [type |-> "allow", explanation |-> s_explanation]),
    fc_delete,
    Flagged(fc_delete, [type |-> "require_confirmation",
                        explanation |-> s_explanation]),
    [name |-> s_delete_account_file, args |-> << <<k_url, StrVal(BankUrl)>> >>],
    [name |-> s_download_report, args |-> <<>>],
    fc_navigate,
    Flagged(fc_navigate, [type |-> "require_confirmation",
                          explanation |-> s_explanation]),
    [name |-> s_type_text_at,
     args |-> ClickArgs \o << <<k_text, StrVal(s_my_password)>> >>],
    [name |-> s_attach, args |-> << <<k_file_id, IntVal(7)>> >>],
    [args |-> ClickArgs] }

\* The agent state a call of the gate could read or write.
AgentState ==
    [conversation_history |-> conversation_history, results |-> results,
     safety_confirmation |-> safety_confirmation,
     high_risk_patterns |-> high_risk_patterns, pc |-> pc]

\* One call of check_safety_decision (lines 194-221): it returns the
\* decision and assigns to nothing.
GateEvaluate ==
    /\ Len(evaluations) < MaxEvaluations
    /\ \E fc \in GateIntents :
         evaluations' = Append(evaluations,
            [function_call |-> fc,
             returned |-> check_safety_decision(fc),
             state |-> AgentState])
    /\ UNCHANGED <<pc, turn, conversation_history, results, page_url,
                   current_url, contents, call_turns, exit_path, candidate>>
    /\ TurnLocalsUnchanged /\ ConfigUnchanged
    /\ UNCHANGED started

GateInit ==
    /\ Init
    /\ max_turns = 1
    /\ initial_url = NoUrl
    /\ builder_awaited = TRUE

GateNext ==
    \/ GateEvaluate
    \/ InitStart
    \/ InitRun
    \/ ServiceFault

SpecGate == GateInit /\ [][GateNext]_vars

\* The function call carries risk metadata of kind "requires confirmation".
RequiresByMetadata(fc) ==
    /\ "safety_decision" \in DOMAIN fc
    /\ "type" \in DOMAIN fc.safety_decision
    /\ fc.safety_decision.type = "require_confirmation"

\* C12: for a function call with risk metadata of kind "requires
\* confirmation" the gate returns true and the metadata's explanation (the
\* default reason when there is none), whatever its name and arguments are.
C12_GatePrecedence ==
    \A i \in 1..Len(evaluations) :
        LET fc == evaluations[i].function_call
            returned == evaluations[i].returned
        IN RequiresByMetadata(fc) =>
            /\ returned[1] = TRUE
            /\ returned[2] = IF "explanation" \in DOMAIN fc.safety_decision
                             THEN fc.safety_decision.explanation
                             ELSE "Action requires confirmation"

C12_Witness ==
    \E i \in 1..Len(evaluations) :
        /\ NameOf(evaluations[i].function_call) = s_delete_account_file
        /\ RequiresByMetadata(evaluations[i].function_call)
        /\ evaluations[i].returned = <<TRUE, s_explanation>>

\* A high-risk term occurs in the serialisation of one of the argument values.
ValuesContainTerm(args) ==
    \E i \in 1..Len(args) : AnyPattern(Lower(ReprVal(args[i][2])))

\* C13: without "requires confirmation" metadata the gate returns true with
\* a reason naming the function exactly when its lower-cased name contains a
\* high-risk term; otherwise true with the sensitive-data reason exactly when
\* the serialised argument values contain one; otherwise (false, "").
C13_Heuristics ==
    \A i \in 1..Len(evaluations) :
        LET fc == evaluations[i].function_call
            returned == evaluations[i].returned
        IN ~RequiresByMetadata(fc) =>
            IF AnyPattern(Lower(NameOf(fc)))
            THEN /\ returned[1] = TRUE
                 /\ Contains(returned[2], NameOf(fc))
                 /\ returned[2] # msg_sensitive
            ELSE IF ValuesContainTerm(ArgsOf(fc))
            THEN returned = <<TRUE, msg_sensitive>>
            ELSE returned = <<FALSE, "">>

\* C15: a run that is cancelled ends and returns a result with
\* success = false and a cancellation reason.
C15_Cancellation ==
    exit_path = "cancelled" =>
        /\ pc \in {"DONE", "FAILED"}
        /\ results.success = FALSE
        /\ "reason" \in DOMAIN results

(***************************************************************************)
(* The executor on every kind of intent.  ExecInit is the loop after the   *)
(* first response of a run without confirmation: the response holds one    *)
(* function call out of ExecutorIntents, followed by a click.              *)
(***************************************************************************)
s_wait == "wait"
s_hover_at == "hover_at"
s_hi == "hi"
s_sideways == "sideways"
s_copy == "Control+c"

XY == ClickArgs
Intent(name, args) == [name |-> name, args |-> args]

ExecutorIntents == {
    Intent(s_navigate, << <<k_url, StrVal(ExampleUrl)>> >>),
    Intent(s_navigate, <<>>),
    Intent(s_click_at, XY),
    Intent(s_click_at, << <<k_x, IntVal(500)>> >>),
    Intent(s_click_at, <<>>),
    Intent(s_type_text_at, XY \o << <<k_text, StrVal(s_hi)>> >>),
    Intent(s_type_text_at, XY \o << <<k_text, StrVal(s_hi)>>,
                                    <<k_clear_before_typing, BoolVal(FALSE)>>,
                                    <<k_press_enter, BoolVal(FALSE)>> >>),
    Intent(s_type_text_at, XY),
    Intent(s_type_text_at, << <<k_text, StrVal(s_hi)>> >>),
    Intent(s_scroll_document, << <<k_direction, StrVal(s_up)>> >>),
    Intent(s_scroll_document, << <<k_direction, StrVal(s_sideways)>> >>),
    Intent(s_scroll_document, <<>>),
    Intent(s_scroll_at, XY \o << <<k_direction, StrVal(s_left)>>,
                                 <<k_magnitude, IntVal(300)>> >>),
    Intent(s_scroll_at, XY \o << <<k_direction, StrVal(s_right)>> >>),
    Intent(s_scroll_at, XY \o << <<k_magnitude, IntVal(300)>> >>),
    Intent(s_scroll_at, << <<k_direction, StrVal(s_down)>>,
                           <<k_magnitude, IntVal(300)>> >>),
    Intent(s_wait_5_seconds, <<>>),
    Intent(s_wait, <<>>),
    Intent(s_go_back, <<>>),
    Intent(s_go_forward, <<>>),
    Intent(s_search, <<>>),
    Intent(s_key_combination, << <<k_keys, StrVal(s_copy)>> >>),
    Intent(s_key_combination, <<>>),
    Intent(s_hover_at, XY) }

ExecInit ==
    /\ pc = "DISPATCHING_INTENTS"
    /\ max_turns = 1
    /\ safety_confirmation = FALSE
    /\ initial_url = NoUrl
    /\ turn = 0
    /\ conversation_history = <<SeedEntry, ModelEntry(0)>>
    /\ results = [success |-> FALSE, turns |-> <<>>,
                  initial_url |-> BlankUrl, final_url |-> BlankUrl]
    /\ \E fc \in ExecutorIntents : function_calls = <<fc, fc_click>>
    /\ function_results = <<>>
    /\ function_dict = NoCall
    /\ reason = ""
    /\ function_response_content = <<>>
    /\ page_url = BlankUrl
    /\ current_url = BlankUrl
    /\ contents = ContentsOf(<<SeedEntry>>)
    /\ call_turns = <<0>>
    /\ confirm_log = <<>>
    /\ exec_log = <<>>
    /\ call_index = 1
    /\ invalid_answers = 0
    /\ exit_path = "running"
    /\ candidate = <<>>
    /\ started = <<>>
    /\ content_parts = <<>>
    /\ function_response = <<>>
    /\ screenshot = "unbound"
    /\ builder_awaited = TRUE
    /\ evaluations = <<>>

ExecNext ==
    \/ DispatchIntent
    \/ ExecuteOperation
    \/ Execute
    \/ BuildStart
    \/ BuildScreenshot
    \/ BuildObservation
    \/ MergeObservation

SpecExecutor == ExecInit /\ [][ExecNext]_vars

\* The outcome of the executor call logged at exec_log[k].
OutcomeOf(k) == function_results[exec_log[k].index]

\* An exception raised by a browser operation of the call logged at
\* exec_log[k] that reached the handler of line 342 is in the outcome.
Contained(k) ==
    exec_log[k].raised # "" =>
        /\ Len(function_results) >= exec_log[k].index
        /\ OutcomeOf(k).status = "error"
        /\ OutcomeOf(k).result.status = "error"
        /\ OutcomeOf(k).result.error = exec_log[k].raised

\* The executor goes on to its next operation, or it returns: then the loop
\* has one outcome more and goes to the next intent of the turn, if there is
\* one.
C16_Step ==
    pc = "EXECUTING" =>
        \/ /\ pc' = "EXECUTING"
           /\ function_results' = function_results
           /\ Len(started') = Len(started) + 1
        \/ /\ Len(function_results') = Len(function_results) + 1
           /\ pc' = IF call_index < Len(function_calls)
                    THEN "DISPATCHING_INTENTS" ELSE "BATCH_COMPLETION"

C16_StateAsStated ==
    /\ pc \notin {"RAISED", "FAILED"}
    /\ \A k \in 1..Len(exec_log) :
          /\ Contained(k)
          /\ exec_log[k].swallowed # "" =>
                /\ OutcomeOf(k).status = "error"
                /\ OutcomeOf(k).result.error = exec_log[k].swallowed

\* C16 as stated: whatever the kind of the intent, an exception raised by
\* any browser operation of execute_function_call, the element click of
\* type_text_at included, is returned as an outcome with status error and
\* the exception's message, and the loop goes on with the next intent.
C16_AsStated ==
    /\ []C16_StateAsStated
    /\ [][C16_Step]_vars

\* The failure of the element click of type_text_at is not an outcome: the
\* pointer click at the pixel position follows, and the call ends as the
\* later operations decide.
C16_State ==
    /\ pc \notin {"RAISED", "FAILED"}
    /\ \A k \in 1..Len(exec_log) :
          /\ Contained(k)
          /\ exec_log[k].swallowed # "" =>
                /\ exec_log[k].call.name = s_type_text_at
                /\ IsPrefix(<<"click", "mouse.click">>, exec_log[k].ops)
                /\ exec_log[k].raised = "" =>
                      /\ OutcomeOf(k).status = "success"
                      /\ OutcomeOf(k).result.position
                            = [x |-> PixelOf(exec_log[k].call.args)[1],
                               y |-> PixelOf(exec_log[k].call.args)[2]]

\* C16 (amended): whatever the kind of the intent, an exception raised by a
\* browser operation of execute_function_call does not leave it: the call
\* returns an outcome with status error and the exception's message, except
\* for the element click of type_text_at, whose failure is answered by a
\* pointer click at the same pixel position; the loop goes on with the next
\* intent of the turn.
C16_BackendFailureContained ==
    /\ []C16_State
    /\ [][C16_Step]_vars

\* type_text_at whose element click fails, whose pointer click and
\* Control+a work and whose typing fails; the click after it succeeds.
C16_Witness ==
    /\ Len(exec_log) = 2
    /\ exec_log[1].call.name = s_type_text_at
    /\ exec_log[1].swallowed = msg_backend
    /\ exec_log[1].raised = msg_backend
    /\ exec_log[1].ops = <<"click", "mouse.click", "press", "type">>
    /\ function_results[1].result = [status |-> "error", error |-> msg_backend]
    /\ function_results[2].status = "success"

\* The names of the intents as the specification lists them.
Vocabulary ==
    {"navigate", "click_at", "type_text_at", "scroll_document", "scroll_at",
     "wait", "go_back", "go_forward", "search", "key_combination"}

\* The outcome says that the name is not recognized.
Unrecognized(outcome) ==
    /\ outcome.status = "error"
    /\ "message" \in DOMAIN outcome.result
    /\ Contains(outcome.result.message, "Unknown function")

\* C17: the executor dispatches on the vocabulary: a call with a name of the
\* vocabulary is not answered as unrecognized (wait succeeds with the waited
\* 5 seconds), and a call with any other name is answered with status error
\* saying the name is unrecognized, without a browser operation.
C17_Dispatch ==
    \A k \in 1..Len(exec_log) :
        IF exec_log[k].call.name \in Vocabulary
        THEN /\ ~Unrecognized(OutcomeOf(k))
             /\ exec_log[k].call.name = "wait" =>
                    OutcomeOf(k).result = [status |-> "success", waited |-> 5]
        ELSE /\ Unrecognized(OutcomeOf(k))
             /\ exec_log[k].ops = <<>>

\* The arguments an intent of each kind must have.
RequiredArgs(name) ==
    CASE name = "navigate" -> {"url"}
      [] name = "click_at" -> {"x", "y"}
      [] name = "type_text_at" -> {"x", "y", "text"}
      [] name = "scroll_document" -> {"direction"}
      [] name = "scroll_at" -> {"x", "y", "direction", "magnitude"}
      [] name = "key_combination" -> {"keys"}
      [] OTHER -> {}

LacksArgument(call) ==
    \E k \in RequiredArgs(call.name) : ~HasKey(call.args, k)

\* C18: an intent that lacks a required argument of its kind gets an outcome
\* with status error, and no browser operation is performed for it.
C18_MissingArgument ==
    \A k \in 1..Len(exec_log) :
        LacksArgument(exec_log[k].call) =>
            /\ OutcomeOf(k).status = "error"
            /\ exec_log[k].ops = <<>>

\* C19: a successful click_at reports the pixel position, x and y, that the
\* mapper gives for the intent's x and y: (720, 450) for (500, 500) on the
\* 1440x900 viewport.
C19_ClickPosition ==
    \A k \in 1..Len(exec_log) :
        /\ exec_log[k].call.name = "click_at"
        /\ OutcomeOf(k).status = "success"
        => LET args == exec_log[k].call.args
               p == denormalize_coordinates(GetOr(args, "x", IntVal(0)).n,
                                            GetOr(args, "y", IntVal(0)).n)
               position == OutcomeOf(k).result.position
           IN /\ DOMAIN position = {"x", "y"}
              /\ position.x = p[1]
              /\ position.y = p[2]
              /\ args = ClickArgs => position = [x |-> 720, y |-> 450]

(***************************************************************************)
(* The coordinate mapper called directly, on agents configured with        *)
(* different viewports.                                                    *)
(***************************************************************************)
NormMax == 999     \* line 184: normalized coordinates are 0..999

\* AgentConfig(screen_width, screen_height) of the agent the mapper belongs to
Viewports == {<<1, 1>>, <<1000, 1000>>, <<screen_width, screen_height>>,
              <<2000, 2001>>, <<2560, 1440>>, <<3840, 2160>>}

NormYs == {0, 1, 500, NormMax}

\* One call of denormalize_coordinates (lines 179-192) on an agent whose
\* config has the viewport vp.
MapCoordinates ==
    /\ evaluations = <<>>
    /\ \E x \in 0..NormMax, y \in NormYs, vp \in Viewports :
         evaluations' = <<[x |-> x, y |-> y, width |-> vp[1], height |-> vp[2],
                           returned |-> <<Scale(x, vp[1]), Scale(y, vp[2])>>]>>
    /\ UNCHANGED <<pc, turn, conversation_history, results, page_url,
                   current_url, contents, call_turns, exit_path, candidate>>
    /\ TurnLocalsUnchanged /\ ConfigUnchanged
    /\ UNCHANGED started

MapperInit ==
    /\ Init
    /\ max_turns = 1
    /\ safety_confirmation = FALSE
    /\ initial_url = NoUrl
    /\ builder_awaited = TRUE

MapperNext == MapCoordinates

SpecMapper == MapperInit /\ [][MapperNext]_vars

\* px is floor(v * size / 1000), inside the viewport, and not above the
\* pixel of v + 1.
AxisLaw(v, size, px) ==
    /\ px * 1000 <= v * size
    /\ v * size < (px + 1) * 1000
    /\ 0 <= px /\ px <= size - 1
    /\ v = 0 => px = 0
    /\ v < NormMax => px <= Scale(v + 1, size)

\* C20 as stated: floor, monotonic, (0, 0) to (0, 0), inside the viewport,
\* and 999 at most one pixel away from the last pixel of its axis.
C20_AsStated ==
    \A i \in 1..Len(evaluations) :
        LET e == evaluations[i] IN
        /\ AxisLaw(e.x, e.width, e.returned[1])
        /\ AxisLaw(e.y, e.height, e.returned[2])
        /\ e.x = NormMax => (e.width - 1) - e.returned[1] \in {0, 1}
        /\ e.y = NormMax => (e.height - 1) - e.returned[2] \in {0, 1}

\* C20: for x, y in 0..999 and a viewport W x H the mapper returns
\* (floor(x*W/1000), floor(y*H/1000)); it is monotonic in each axis, maps
\* (0, 0) to (0, 0), stays inside the viewport, and maps 999 to
\* W - ceil(W/1000), which is (W-1) \div 1000 pixels before the last pixel:
\* none up to W = 1000, one up to 2000, two up to 3000, and so on.
C20_Mapping ==
    \A i \in 1..Len(evaluations) :
        LET e == evaluations[i] IN
        /\ AxisLaw(e.x, e.width, e.returned[1])
        /\ AxisLaw(e.y, e.height, e.returned[2])
        /\ e.x = NormMax =>
              (e.width - 1) - e.returned[1] = (e.width - 1) \div 1000
        /\ e.y = NormMax =>
              (e.height - 1) - e.returned[2] = (e.height - 1) \div 1000

C20_Witness ==
    /\ evaluations # <<>>
    /\ evaluations[1].x = NormMax /\ evaluations[1].y = NormMax
    /\ evaluations[1].width = 2560 /\ evaluations[1].height = 1440
    /\ evaluations[1].returned = <<2557, 1438>>

\* The record built for an outcome holds every entry of the outcome's payload.
CarriesPayload(record, outcome) ==
    \A key \in DOMAIN outcome.result :
        /\ key \in DOMAIN record.response
        /\ record.response[key] = outcome.result[key]

\* C21: whatever the status of an outcome, the tool-result record built for
\* it holds the status, the page URL, a timestamp and the outcome's payload:
\* the message of an error and the reason of a cancelled outcome are in it.
C21_RecordContents ==
    pc = "MERGING" =>
        \A i \in 1..Len(function_results) :
            /\ {"status", "url", "timestamp"}
                    \subseteq DOMAIN function_response_content[i].response
            /\ function_response_content[i].response.status
                    = function_results[i].status
            /\ CarriesPayload(function_response_content[i], function_results[i])

\* C22: with confirmation disabled nobody is asked, no outcome is cancelled,
\* and every intent of the response is handed to the executor in its turn,
\* with the name and the arguments the service gave, flagged or not.
C22_ConfirmationDisabled ==
    ~safety_confirmation =>
        /\ pc # "AWAITING_CONFIRMATION"
        /\ confirm_log = <<>>
        /\ Len(exec_log) = Len(function_results)
        /\ \A i \in 1..Len(function_results) :
              /\ function_results[i].status # "cancelled"
              /\ exec_log[i].index = i
              /\ exec_log[i].call = [name |-> function_calls[i].name,
                                     args |-> function_calls[i].args]
        /\ pc = "EXECUTING" =>
              function_dict = [name |-> function_calls[call_index].name,
                               args |-> function_calls[call_index].args]

C22_Witness ==
    /\ ~safety_confirmation
    /\ Len(exec_log) = 2
    /\ exec_log[1].call = FunctionDict(fc_delete)
    /\ exec_log[2].call = FunctionDict(fc_navigate)
    /\ GateTable[exec_log[1].call][1]
    /\ GateTable[exec_log[2].call][1]
    /\ function_results[2].status = "success"

(***************************************************************************)
(* Progress.  Every external call returns: the service answers or fails,   *)
(* a browser operation ends or raises, the user types an answer.  So a     *)
(* step of the loop is taken whenever one is possible.                     *)
(***************************************************************************)
SpecLive == Init /\ [][Next]_vars /\ WF_vars(Next)

\* run_agent_loop has returned or raised
Ended == pc \in {"DONE", "FAILED", "RAISED", "CANCELLED"}

\* C23: when every external call returns, every run ends: no step of a turn
\* repeats for ever.
C23_Terminates == <>Ended

\* An outcome whose status is error or cancelled
FailedOutcome(outcome) == outcome.status \in {"error", "cancelled"}

\* One step of the loop, as C24 wants it.
C24_Step ==
    /\ ( /\ Len(function_results') = Len(function_results) + 1
         /\ FailedOutcome(Last(function_results')) )
       => /\ turn' = turn
          /\ function_calls' = function_calls
          /\ call_index' = call_index + 1
          /\ pc' = IF call_index < Len(function_calls)
                   THEN "DISPATCHING_INTENTS" ELSE "BATCH_COMPLETION"
    /\ (pc = "DISPATCHING_INTENTS" /\ pc' # pc)
       => /\ function_dict' = FunctionDict(function_calls[call_index])
          /\ pc' = IF safety_confirmation /\ GateOf(call_index)[1]
                   THEN "AWAITING_CONFIRMATION" ELSE "EXECUTING"
    /\ ( /\ pc \in {"BATCH_COMPLETION", "MERGING"} /\ pc' # pc
         /\ \E i \in 1..Len(function_results) :
                ~FailedOutcome(function_results[i])
         /\ turn + 1 < max_turns )
       => IF pc = "MERGING"
          THEN pc' = "AWAITING_MODEL" /\ turn' = turn + 1
          ELSE pc' \in {"MERGING", "CANCELLED"}

\* C24: an outcome with status error or cancelled does not abort its turn:
\* the loop goes on to the next intent of the turn, which meets the gate and,
\* if allowed, the executor; and after a turn with at least one outcome that
\* is neither error nor cancelled the loop goes on to the next turn while
\* budget remains.
C24_FailureDoesNotAbort == [][C24_Step]_vars

\* C25: the URL carried by each tool-result record is the URL of the page when
\* the record is built, that is after every intent of the turn has run.
C25_RecordUrlIsCurrent ==
    pc = "MERGING" =>
        \A i \in 1..Len(function_response_content) :
            function_response_content[i].response.url = page_url

\* run_agent_loop has returned its result
Returned == pc \in {"DONE", "FAILED"}

C26_State ==
    /\ results.success <=> (pc = "DONE" /\ exit_path = "answer")
    /\ results.success <=> "final_response" \in DOMAIN results
    /\ results.success => ~HasCalls(candidate)
    /\ ~Returned => ~results.success
    /\ exit_path \in {"fault", "all_failed", "exhausted"} => ~results.success

\* C26: success is true exactly when the run ended on a response without
\* function calls, and exactly then the result has a final response; it is
\* false in every state before the return and after a service fault, an
\* all-failed turn or an exhausted budget; once it is true there is no
\* further service call, confirmation or execution.
C26_Success ==
    /\ []C26_State
    /\ [][results.success =>
            /\ call_turns' = call_turns
            /\ confirm_log' = confirm_log
            /\ exec_log' = exec_log
            /\ results' = results]_vars

\* A run that ended on a final response in its second turn.
C26_Witness ==
    /\ results.success
    /\ Returned
    /\ ~HasCalls(candidate)
    /\ Len(results.turns) = 1
    /\ "final_response" \in DOMAIN results

\* results["turns"]
Turns == results.turns

C27_State ==
    /\ \A i \in 1..Len(Turns) :
          /\ Turns[i].turn = i
          /\ Turns[i].kind \in {"summary", "error"}
          /\ Turns[i].kind = "error" => i = Len(Turns) /\ pc = "FAILED"
    /\ Len(Turns) <= Len(call_turns)
    /\ Len(call_turns) <= Len(Turns) + 1
    /\ Returned =>
          Len(Turns) = Len(call_turns) - (IF results.success THEN 1 ELSE 0)

C27_Step ==
    /\ \/ results'.turns = Turns
       \/ /\ Len(results'.turns) = Len(Turns) + 1
          /\ SubSeq(results'.turns, 1, Len(Turns)) = Turns
    /\ Len(call_turns') > Len(call_turns) => Len(Turns) = Len(call_turns)
    /\ results'.success => results'.turns = Turns

\* C27: the turn list gets at most one entry per turn; the entries are
\* numbered 1, 2, ... in order; an entry is a summary or a fault record, and a
\* fault record is the last one; the turn of the final answer adds none, so at
\* return the list has as many entries as there were service calls, one less
\* when success is true.
C27_TurnList ==
    /\ []C27_State
    /\ [][C27_Step]_vars

\* A run whose first turn was recorded and whose second turn was a fault.
C27_Witness ==
    /\ pc = "FAILED"
    /\ Len(Turns) = 2
    /\ Turns[1].kind = "summary"
    /\ Turns[2].kind = "error"
    /\ Len(call_turns) = 2

====
